---- MODULE Spec2Model ----
(***************************************************************************)
(* Model of the OpenCommit GitHub action (src/src/github-action.ts):       *)
(* run -> improveCommitMessages -> getDiffsBySHAs -> improveMessagesIn-     *)
(* Chunks -> rewrite of the history (files, rebase, force push).           *)
(*                                                                         *)
(* The action is one async control flow.  A state of the model is a        *)
(* suspension point of that flow (an await) together with the state of     *)
(* the promises that are in flight; an action is the code that runs        *)
(* between two suspension points, or the settlement of one promise by      *)
(* the outside world.  Indices are 0-based as in the source; sequences     *)
(* are 1-based, hence the "+ 1" where an array is read.                    *)
(***************************************************************************)
EXTENDS Integers, Sequences, FiniteSets, TLC

\* Largest number of commits of a push event that is explored.
MaxCommits == 6

\* The count of backoffs of a run is followed up to this number.
MaxBackoffs == 2

\* Largest number of files given to getDiff that is explored.
MaxFiles == 2

\* Largest number of invocations of a command that is explored.
MaxInvocations == 3

\* The count of loop iterations of a run is followed up to this number.
MaxIterations == MaxBackoffs + 1

VARIABLES
  eventName,                \* github.context.eventName
  commits,                  \* payload.commits = commitsToImprove: <<[id, message]>>
  pc,                       \* the await the control flow is suspended at
  diffPromises,             \* getDiffsBySHAs: one promise per SHA
  diffsAndSHAs,             \* the argument of improveMessagesInChunks
  chunkSize,                \* improveMessagesInChunks: chunkSize (0: not invoked)
  step,                     \* improveMessagesInChunks: the loop offset
  improvePromises,          \* improveMessagesInChunks: one promise per diff
  improvedMessagesAndSHAs,  \* improveMessagesInChunks: accumulated result
  sleepFor,                 \* duration of the sleep being awaited (0: none)
  disk,                     \* files of the working directory: name -> content
  rebaseLog,                \* the commits the invoked rebases were anchored at
  replayed,                 \* messages given to the commits replayed by the rebase
  pushes,                   \* number of 'git push --force' invoked
  setFailed,                \* message given to core.setFailed ("" if not called)
  backoffs,                 \* history: number of backoff sleeps started so far
  caught,                   \* the value caught at line 248: [kind, message]
  backendError,             \* the error the backend answers with when it fails
  calls,                    \* number of calls of generateCommitMessageByDiff per diff
  gitConfig,                \* the keys written to .git/config by 'git config'
  iterations,               \* history: number of iterations of the chunk loop begun
  shortSleeps,              \* history: number of short sleeps started so far
  hookPc,                   \* hookCommand: the await the command is suspended at
  mode,                     \* hookCommand: argv._.setUnset of the invocation
  hookEntry,                \* what is found at SYMLINK_URL: [kind, target]
  hooksDir,                 \* does the directory of SYMLINK_URL exist
  exitCode,                 \* exit code of the command that ended last
  invocations,              \* history: number of invocations of the command
  initialEntry,             \* history: hookEntry before the first invocation
  stagedFiles,              \* getDiff: the argument files (the staged files)
  diffPc,                   \* getDiff: "idle", "called", "returned" or "thrown"
  announced,                \* getDiff: the files named in the outro as excluded
  diffArgs,                 \* getDiff: the files passed to 'git diff --staged --'
  prepPc,                   \* prepareCommitMessageHook: the await it is suspended at
  argv,                     \* process.argv.slice(2): [messageFilePath, commitSource]
  isStageAllFlag,           \* the parameter of prepareCommitMessageHook
  apiKey,                   \* is config.OCO_OPENAI_API_KEY set
  messageFile,              \* content of the commit message file
  previousContent,          \* history: messageFile when the hook was called
  commitPc,                 \* generateCommitMessageFromGitDiff: the await it is at
  extraArguments,           \* the extra arguments of the commit command
  remotes,                  \* the remotes 'git remote' lists
  confirmed,                \* history: the answer to 'Confirm the commit message?'
  gitCommands               \* history: the git commands executed, with their outcome

\* the variables of the GitHub action
actionVars == <<eventName, commits, pc, diffPromises, diffsAndSHAs, chunkSize, step,
                improvePromises, improvedMessagesAndSHAs, sleepFor, disk, rebaseLog,
                replayed, pushes, setFailed, backoffs, caught, backendError, calls,
                gitConfig, iterations, shortSleeps>>

\* the variables of the hook command (src/src/commands/githook.ts)
hookVars == <<hookPc, mode, hookEntry, hooksDir, invocations, initialEntry>>

\* the variables of getDiff, prepareCommitMessageHook and the commit flow
diffVars == <<stagedFiles, diffPc, announced, diffArgs>>
prepareVars == <<prepPc, argv, isStageAllFlag, apiKey, messageFile, previousContent>>
commitVars == <<commitPc, extraArguments, remotes, confirmed, gitCommands>>

\* the variables of the commands of the command line tool
cliVars == <<hookVars, exitCode, diffVars, prepareVars, commitVars>>

vars == <<actionVars, cliVars>>

-----------------------------------------------------------------------------
(* Values *)

Pending == [state |-> "pending", value |-> ""]
Fulfilled(v) == [state |-> "fulfilled", value |-> v]
Rejected == [state |-> "rejected", value |-> ""]
RejectedWith(reason) == [state |-> "rejected", value |-> reason]

\* line 248: no value has been caught by run
NothingCaught == [kind |-> "none", message |-> ""]

\* The failures of the backend: a transient one (429, too many requests)
\* and a hard one (401, wrong API key).
BackendErrors == {"rate limit", "unauthorized"}

\* The id of the i-th (0-based, oldest first) commit of the push event.
Sha(i) == "sha" \o ToString(i)

\* The diff GitHub returns for a commit: one distinct text per commit.
DiffOf(sha) == "diff-" \o sha

\* The message the backend generates for a diff.
Generated(diff) == "improved-" \o diff

\* The commit lists of the push events explored: n commits, those at the
\* positions in lame carry a message the backend will change, the others
\* already carry the message the backend generates.
CommitList(n, lame) ==
  [i \in 1..n |-> [id |-> Sha(i - 1),
                   message |-> IF i \in lame THEN "wip"
                               ELSE Generated(DiffOf(Sha(i - 1)))]]

LamePatterns(n) == {{}, 1..n} \cup {{j} : j \in 1..n}

CommitLists ==
  UNION {{CommitList(n, lame) : lame \in LamePatterns(n)} : n \in 0..MaxCommits}

\* randomIntFromInterval(1, 5)
RandomInt == 1..5

\* A slip: the cooldown of the catch block is also used after a success.
ShortSleepsWithCooldown ==
  {60000 + 1000 * a + 100 * b : a \in RandomInt, b \in RandomInt}

\* line 91-92: the jittered delay after a successful chunk
ShortSleeps == {1000 * a + 100 * b : a \in RandomInt, b \in RandomInt}

\* line 104: the backoff after a failed chunk
LongSleeps == {60000 + 1000 * a : a \in RandomInt}

\* The working directory before the run: the checked out repository.
InitialDisk == "README.md" :> "opencommit"

\* Names and contents of the temporary files (line 172-183)
CommitFile(index) == "commit-" \o ToString(index) \o ".txt"
CountFile == "count.txt"
ScriptFile == "rebase-exec.sh"
ScriptText == "count=$(cat count.txt); git commit --amend -F commit-$count.txt; echo $(( count + 1 )) > count.txt"

-----------------------------------------------------------------------------
(* improveMessagesInChunks *)

\* A slip in the parity test: the sizes swapped.
ChunkSizeSwapped(length) == IF length % 2 = 0 THEN 3 ELSE 4

\* line 65
ChunkSize(length) == IF length % 2 = 0 THEN 4 ELSE 3

\* line 73: the 0-based indices of improvePromises.slice(s, s + chunkSize)
SliceIndices(s, size, length) ==
  {i \in 0..(length - 1) : i >= s /\ i < s + size}

ChunkIndices == SliceIndices(step, chunkSize, Len(improvePromises))

\* line 76: Promise.all is fulfilled once every promise of the chunk is, and
\* rejected as soon as one of them is.
ChunkFulfilled == \A i \in ChunkIndices : improvePromises[i + 1].state = "fulfilled"
ChunkRejected == \E i \in ChunkIndices : improvePromises[i + 1].state = "rejected"

\* line 76: the values of Promise.all, in the order of the promises of the slice
ChunkOfImprovedMessages ==
  [k \in 1..Cardinality(ChunkIndices) |-> improvePromises[step + k].value]

\* A slip in the slot lookup: the offset of the chunk is forgotten.
ShaOfSlotWithoutOffset(index, i) == diffsAndSHAs[i + 1].sha

\* line 80-81: the sha paired with the i-th message of the chunk
ShaOfSlot(index, i) == diffsAndSHAs[index + i + 1].sha

\* line 78-85
ChunkOfImprovedMessagesBySha ==
  [k \in 1..Len(ChunkOfImprovedMessages) |->
     [sha |-> ShaOfSlot(Len(improvedMessagesAndSHAs), k - 1),
      msg |-> ChunkOfImprovedMessages[k]]]

\* A slip in the catch block: line 109 ("go to previous step") is missing.
StepAfterFailureNoRewind(s, size) == s + size

\* line 109 followed by the increment of line 72
StepAfterFailure(s, size) == (s - size) + size

\* A slip in the increment: the loop advances by one request.
StepAfterSuccessByOne(s, size) == s + 1

\* line 72: the increment after a successful chunk
StepAfterSuccess(s, size) == s + size

\* A promise of a chunk that has not been awaited yet has no rejection
\* handler: Promise.all attaches the handlers of a chunk at line 76.
Unhandled(i) == i >= step + chunkSize

InPipeline == pc \in {"awaitChunk", "sleepShort", "sleepLong"}

-----------------------------------------------------------------------------
(* improveCommitMessages *)

\* A slip: 'every' instead of 'some'.
MessagesAllChanged(improved, originals) ==
  \A index \in 1..Len(improved) : improved[index].msg # originals[index].message

\* line 162-164
MessagesChanged(improved, originals) ==
  \E index \in 1..Len(improved) : improved[index].msg # originals[index].message

\* A slip: the message files are numbered from 1 instead of 0.
WrittenFilesFromOne(improved) ==
  [name \in {CommitFile(index) : index \in 1..Len(improved)}
             \cup {CountFile, ScriptFile} |->
     IF name = CountFile THEN "0"
     ELSE IF name = ScriptFile THEN ScriptText
     ELSE improved[CHOOSE index \in 1..Len(improved) : CommitFile(index) = name].msg]

\* line 171-183: the files written before the rebase
WrittenFiles(improved) ==
  [name \in {CommitFile(index) : index \in 0..(Len(improved) - 1)}
             \cup {CountFile, ScriptFile} |->
     IF name = CountFile THEN "0"
     ELSE IF name = ScriptFile THEN ScriptText
     ELSE improved[(CHOOSE index \in 0..(Len(improved) - 1) :
                      CommitFile(index) = name) + 1].msg]

\* writeFileSync creates or overwrites
WriteAll(d, files) ==
  [name \in DOMAIN d \cup DOMAIN files |->
     IF name \in DOMAIN files THEN files[name] ELSE d[name]]

\* A slip: line 203 is missing, count.txt is left behind.
UnlinkedFilesButCount(originals) ==
  {CommitFile(index) : index \in 0..(Len(originals) - 1)} \cup {ScriptFile}

\* line 199-204: the files unlinked after the rebase
UnlinkedFiles(originals) ==
  {CommitFile(index) : index \in 0..(Len(originals) - 1)} \cup {CountFile, ScriptFile}

Unlink(d, names) == [name \in DOMAIN d \ names |-> d[name]]

\* line 189: the commit the rebase is anchored at
Parent(id) == id \o "^"

\* A slip in the guard: >= instead of >.
HasCommitsOrNone(list) == Len(list) >= 0

\* line 142: the guard of the "no new commits" path
HasCommits(list) == Len(list) > 0

\* The rewrite-step script reads the counter as a decimal number.
ParseCount(text) == CHOOSE n \in 0..(MaxCommits + 1) : ToString(n) = text

-----------------------------------------------------------------------------
(* Initial state: the action is started on an event *)

\* the action is started
ActionStarts ==
  /\ eventName \in {"push", "pull_request"}
  /\ commits \in CommitLists
  /\ pc = "start"
  /\ diffPromises = <<>>
  /\ diffsAndSHAs = <<>>
  /\ chunkSize = 0
  /\ step = 0
  /\ improvePromises = <<>>
  /\ improvedMessagesAndSHAs = <<>>
  /\ sleepFor = 0
  /\ disk = InitialDisk
  /\ rebaseLog = <<>>
  /\ replayed = <<>>
  /\ pushes = 0
  /\ setFailed = ""
  /\ backoffs = 0
  /\ caught = NothingCaught
  /\ backendError \in BackendErrors
  /\ calls = <<>>
  /\ gitConfig = {}
  /\ iterations = 0
  /\ shortSleeps = 0

\* no command of the command line tool is running
NotExited == -1
Absent == [kind |-> "absent", target |-> ""]
HookIdle ==
  /\ hookPc = "idle"
  /\ mode = ""
  /\ hookEntry = Absent
  /\ hooksDir = FALSE
  /\ invocations = 0
  /\ initialEntry = Absent

DiffIdle ==
  /\ stagedFiles = <<>>
  /\ diffPc = "idle"
  /\ announced = <<>>
  /\ diffArgs = <<>>

PrepareIdle ==
  /\ prepPc = "idle"
  /\ argv = [messageFilePath |-> "", commitSource |-> ""]
  /\ isStageAllFlag = FALSE
  /\ apiKey = FALSE
  /\ messageFile = ""
  /\ previousContent = ""

CommitIdle ==
  /\ commitPc = "idle"
  /\ extraArguments = <<>>
  /\ remotes = <<>>
  /\ confirmed = "not asked"
  /\ gitCommands = <<>>

CliIdle == HookIdle /\ DiffIdle /\ PrepareIdle /\ CommitIdle /\ exitCode = NotExited

\* the action is not triggered: the state of the action of a command line run
ActionIdle ==
  ActionStarts /\ eventName = "push" /\ commits = <<>> /\ backendError = "rate limit"

Init == ActionStarts /\ CliIdle

pipelineVars == <<diffsAndSHAs, chunkSize, step, improvePromises,
                  improvedMessagesAndSHAs, sleepFor, backoffs, calls,
                  iterations, shortSleeps>>
rewriteVars == <<disk, rebaseLog, replayed, pushes>>

\* line 248-250: a value thrown inside run's try block is caught; only an
\* instance of Error is reported with core.setFailed.  What the libraries
\* reject with is not under the control of this code.
Throw(message) ==
  /\ pc' = "done"
  /\ \E isError \in BOOLEAN :
       /\ caught' = [kind |-> IF isError THEN "Error" ELSE "other",
                     message |-> message]
       /\ setFailed' = IF isError THEN message ELSE setFailed

-----------------------------------------------------------------------------
(* run *)

\* line 221-231, 242-247: the event type is checked; on a push event the
\* git identity is set up (line 233-239)
RunStart ==
  /\ pc = "start"
  /\ pc' = IF eventName = "push" THEN "gitSetup" ELSE "done"
  /\ UNCHANGED <<eventName, cliVars, gitConfig, backendError, commits, diffPromises, pipelineVars, rewriteVars,
                 setFailed, caught>>

\* line 139-151: improveCommitMessages up to its first await
ImproveCommitMessagesEntry ==
  IF HasCommits(commits)
  THEN /\ diffPromises' = [i \in 1..Len(commits) |-> Pending]
       /\ pc' = "fetching"
  ELSE /\ pc' = "done"
       /\ UNCHANGED diffPromises

\* line 232-239: the keys that are written when the commands of the git
\* setup are run up to the one that fails ("none": all of them succeed)
ConfigWritten(hasEmail, failAt) ==
  (IF hasEmail /\ failAt # "user.email" THEN {"user.email"} ELSE {})
    \cup (IF failAt \in {"user.email", "user.name"} THEN {} ELSE {"user.name"})

\* line 232-241: the git commands of run (config user.email if the pusher has
\* one, config user.name, status, log) succeed, or one of them throws
GitSetupDone ==
  /\ pc = "gitSetup"
  /\ \E hasEmail \in BOOLEAN :
       \E failAt \in {"none", "user.name", "status", "log"}
                      \cup (IF hasEmail THEN {"user.email"} ELSE {}) :
         /\ gitConfig' = ConfigWritten(hasEmail, failAt)
         /\ IF failAt = "none"
            THEN ImproveCommitMessagesEntry /\ UNCHANGED <<setFailed, caught>>
            ELSE Throw("git failed") /\ UNCHANGED diffPromises
  /\ UNCHANGED <<eventName, cliVars, backendError, commits, pipelineVars, rewriteVars>>

-----------------------------------------------------------------------------
(* getDiffsBySHAs *)

\* line 32-45: the request for the diff of one commit settles
CommitDiffSettles(i) ==
  /\ pc = "fetching"
  /\ diffPromises[i].state = "pending"
  /\ \E ok \in BOOLEAN :
       diffPromises' = [diffPromises EXCEPT ![i] =
         IF ok THEN Fulfilled([sha |-> commits[i].id, diff |-> DiffOf(commits[i].id)])
         ELSE Rejected]
  /\ UNCHANGED <<eventName, cliVars, gitConfig, backendError, commits, pc, pipelineVars, rewriteVars, setFailed, caught>>

\* line 125-128: one diff request failed, the error is thrown to run
DiffsRejected ==
  /\ pc = "fetching"
  /\ \E i \in DOMAIN diffPromises : diffPromises[i].state = "rejected"
  /\ Throw("diff request failed")
  /\ UNCHANGED <<eventName, cliVars, gitConfig, backendError, commits, diffPromises, pipelineVars, rewriteVars>>

\* line 156-185: improveCommitMessages from the return of the pipeline to
\* its next await (the chmod), or to its return when nothing changed
AfterPipelineReturns(improved) ==
  IF MessagesChanged(improved, commits)
  THEN /\ disk' = WriteAll(disk, WrittenFiles(improved))
       /\ pc' = "chmod"
  ELSE /\ pc' = "done"
       /\ UNCHANGED disk

\* A slip in the loop test: the result is returned after the first chunk.
LoopTestFirstChunkOnly(s, length, improved) ==
  IF s = 0 /\ s < length
  THEN /\ pc' = "awaitChunk"
       /\ iterations' = IF iterations < MaxIterations THEN iterations + 1 ELSE iterations
       /\ UNCHANGED disk
  ELSE AfterPipelineReturns(improved) /\ UNCHANGED iterations

\* line 72-76, 113: the loop test with offset s; the next chunk is awaited
\* or the accumulated result is returned
LoopTest(s, length, improved) ==
  IF s < length
  THEN /\ pc' = "awaitChunk"
       /\ iterations' = IF iterations < MaxIterations THEN iterations + 1 ELSE iterations
       /\ UNCHANGED disk
  ELSE AfterPipelineReturns(improved) /\ UNCHANGED iterations

\* A slip: Promise.allSettled semantics, the diffs that arrived are used.
DiffsFulfilledAllSettled ==
  /\ pc = "fetching"
  /\ diffPromises # <<>>
  /\ \A i \in DOMAIN diffPromises : diffPromises[i].state # "pending"
  /\ LET arrived == SelectSeq(diffPromises, LAMBDA p : p.state = "fulfilled") IN
       /\ diffsAndSHAs' = [i \in DOMAIN arrived |-> arrived[i].value]
       /\ chunkSize' = ChunkSize(Len(arrived))
       /\ improvePromises' = [i \in DOMAIN arrived |-> Pending]
       /\ calls' = [i \in DOMAIN arrived |-> 1]
       /\ improvedMessagesAndSHAs' = <<>>
       /\ step' = 0
       /\ IF Len(arrived) > 0
          THEN pc' = "awaitChunk" /\ iterations' = 1
          ELSE pc' = "done" /\ UNCHANGED iterations
  /\ UNCHANGED <<eventName, cliVars, gitConfig, backendError, commits, diffPromises, sleepFor,
                 rewriteVars, setFailed, caught, backoffs, shortSleeps>>

\* line 125-130, 154, 64-76: all diffs arrived; improveMessagesInChunks is
\* called, issues every generation request and awaits the first chunk
DiffsFulfilled ==
  /\ pc = "fetching"
  /\ \A i \in DOMAIN diffPromises : diffPromises[i].state = "fulfilled"
  /\ diffsAndSHAs' = [i \in DOMAIN diffPromises |-> diffPromises[i].value]
  /\ chunkSize' = ChunkSize(Len(diffPromises))
  /\ improvePromises' = [i \in DOMAIN diffPromises |-> Pending]
  /\ calls' = [i \in DOMAIN diffPromises |-> 1]
  /\ improvedMessagesAndSHAs' = <<>>
  /\ step' = 0
  /\ LoopTest(0, Len(diffPromises), <<>>)
  /\ UNCHANGED <<eventName, cliVars, gitConfig, backendError, commits, diffPromises, sleepFor, rebaseLog,
                 replayed, pushes, setFailed, caught, backoffs, shortSleeps>>

-----------------------------------------------------------------------------
(* improveMessagesInChunks: the loop *)

\* line 67-69: a generation request settles, at any time after it was issued
GenerationSettles(i) ==
  /\ InPipeline
  /\ improvePromises[i + 1].state = "pending"
  /\ \E ok \in BOOLEAN :
       improvePromises' = [improvePromises EXCEPT ![i + 1] =
         IF ok THEN Fulfilled(Generated(diffsAndSHAs[i + 1].diff))
         ELSE RejectedWith(backendError)]
  /\ UNCHANGED <<eventName, cliVars, gitConfig, backendError, commits, pc, diffPromises, diffsAndSHAs, calls, chunkSize,
                 step, improvedMessagesAndSHAs, sleepFor, rewriteVars, setFailed, caught,
                 backoffs, iterations, shortSleeps>>

\* line 67-69 with the runtime of package.json (node >= 20): a promise that
\* is rejected while no handler is attached to it ends the process, unless
\* the host installed an unhandledRejection hook (then nothing happens).
UnhandledRejection ==
  /\ InPipeline
  /\ \E i \in 0..(Len(improvePromises) - 1) :
       Unhandled(i) /\ improvePromises[i + 1].state = "rejected"
  /\ pc' = "crashed"
  /\ UNCHANGED <<eventName, cliVars, gitConfig, backendError, commits, diffPromises, pipelineVars, rewriteVars,
                 setFailed, caught>>

\* A slip: no sleep after the last chunk, the result is returned at once.
ChunkSucceedsReturningAtOnce ==
  /\ pc = "awaitChunk"
  /\ ChunkFulfilled
  /\ improvedMessagesAndSHAs' = improvedMessagesAndSHAs \o ChunkOfImprovedMessagesBySha
  /\ IF step + chunkSize < Len(improvePromises)
     THEN /\ sleepFor' \in ShortSleeps
          /\ shortSleeps' = shortSleeps + 1
          /\ pc' = "sleepShort"
          /\ UNCHANGED <<step, disk>>
     ELSE /\ step' = StepAfterSuccess(step, chunkSize)
          /\ AfterPipelineReturns(improvedMessagesAndSHAs')
          /\ UNCHANGED <<sleepFor, shortSleeps>>
  /\ UNCHANGED <<eventName, cliVars, gitConfig, backendError, commits, diffPromises, diffsAndSHAs, calls,
                 chunkSize, improvePromises, rebaseLog, replayed, pushes, setFailed, caught,
                 backoffs, iterations>>

\* line 76-98: every request of the awaited chunk succeeded
ChunkSucceeds ==
  /\ pc = "awaitChunk"
  /\ ChunkFulfilled
  /\ improvedMessagesAndSHAs' = improvedMessagesAndSHAs \o ChunkOfImprovedMessagesBySha
  /\ sleepFor' \in ShortSleeps
  /\ shortSleeps' = shortSleeps + 1
  /\ pc' = "sleepShort"
  /\ UNCHANGED <<eventName, cliVars, gitConfig, backendError, commits, diffPromises, diffsAndSHAs, calls, chunkSize, step,
                 improvePromises, rewriteVars, setFailed, caught, backoffs, iterations>>

\* A slip: the requests of the failed chunk that succeeded are recorded.
ChunkFailsKeepingPartial ==
  /\ pc = "awaitChunk"
  /\ ChunkRejected
  /\ LET arrived == {i \in ChunkIndices : improvePromises[i + 1].state = "fulfilled"}
         partial == [k \in 1..Cardinality(arrived) |->
                       [sha |-> diffsAndSHAs[step + k].sha,
                        msg |-> Generated(diffsAndSHAs[step + k].diff)]]
     IN improvedMessagesAndSHAs' = SubSeq(improvedMessagesAndSHAs, 1, step) \o partial
  /\ sleepFor' \in LongSleeps
  /\ pc' = "sleepLong"
  /\ backoffs' = IF backoffs < MaxBackoffs THEN backoffs + 1 ELSE backoffs
  /\ UNCHANGED <<eventName, cliVars, gitConfig, backendError, commits, diffPromises, diffsAndSHAs, calls, chunkSize, step,
                 improvePromises, rewriteVars, setFailed, caught, iterations, shortSleeps>>

\* line 76, 99-106: a request of the awaited chunk failed
ChunkFails ==
  /\ pc = "awaitChunk"
  /\ ChunkRejected
  /\ sleepFor' \in LongSleeps
  /\ pc' = "sleepLong"
  /\ backoffs' = IF backoffs < MaxBackoffs THEN backoffs + 1 ELSE backoffs
  /\ UNCHANGED <<eventName, cliVars, gitConfig, backendError, commits, diffPromises, diffsAndSHAs, calls, chunkSize, step,
                 improvePromises, improvedMessagesAndSHAs, rewriteVars, setFailed, caught,
                 iterations, shortSleeps>>

\* line 98, 72-76: the short sleep ends, the loop goes on with the next chunk
WakeAfterSuccess ==
  /\ pc = "sleepShort"
  /\ sleepFor' = 0
  /\ step' = StepAfterSuccess(step, chunkSize)
  /\ LoopTest(step', Len(improvePromises), improvedMessagesAndSHAs)
  /\ UNCHANGED <<eventName, cliVars, gitConfig, backendError, commits, diffPromises, diffsAndSHAs, calls, chunkSize,
                 improvePromises, improvedMessagesAndSHAs, rebaseLog, replayed,
                 pushes, setFailed, caught, backoffs, shortSleeps>>

\* line 106-109, 72-76: the backoff ends, the loop goes on
WakeAfterFailure ==
  /\ pc = "sleepLong"
  /\ sleepFor' = 0
  /\ step' = StepAfterFailure(step, chunkSize)
  /\ LoopTest(step', Len(improvePromises), improvedMessagesAndSHAs)
  /\ UNCHANGED <<eventName, cliVars, gitConfig, backendError, commits, diffPromises, diffsAndSHAs, calls, chunkSize,
                 improvePromises, improvedMessagesAndSHAs, rebaseLog, replayed,
                 pushes, setFailed, caught, backoffs, shortSleeps>>

-----------------------------------------------------------------------------
(* improveCommitMessages: the rewrite *)

\* line 185-197: chmod ends; on success the rebase is invoked
ChmodDone ==
  /\ pc = "chmod"
  /\ \E ok \in BOOLEAN :
       IF ok
       THEN /\ rebaseLog' = Append(rebaseLog, Parent(commits[1].id))
            /\ pc' = "rebase"
            /\ UNCHANGED <<setFailed, caught>>
       ELSE /\ Throw("chmod failed")
            /\ UNCHANGED rebaseLog
  /\ UNCHANGED <<eventName, cliVars, gitConfig, backendError, commits, diffPromises, pipelineVars, disk, replayed,
                 pushes>>

\* A slip in the script: the counter is incremented before it is used.
RebaseStepIncrementFirst ==
  /\ pc = "rebase"
  /\ Len(replayed) < Len(commits)
  /\ LET count == ParseCount(disk[CountFile]) + 1 IN
       /\ CommitFile(count) \in DOMAIN disk
       /\ replayed' = Append(replayed, disk[CommitFile(count)])
       /\ disk' = [disk EXCEPT ![CountFile] = ToString(count)]
  /\ UNCHANGED <<eventName, cliVars, gitConfig, backendError, commits, pc, diffPromises, pipelineVars, rebaseLog,
                 pushes, setFailed, caught>>

\* line 179-182: the rebase replays the next commit of the range and runs
\* rebase-exec.sh on it
RebaseStep ==
  /\ pc = "rebase"
  /\ Len(replayed) < Len(commits)
  /\ LET count == ParseCount(disk[CountFile]) IN
       /\ CommitFile(count) \in DOMAIN disk
       /\ replayed' = Append(replayed, disk[CommitFile(count)])
       /\ disk' = [disk EXCEPT ![CountFile] = ToString(count + 1)]
  /\ UNCHANGED <<eventName, cliVars, gitConfig, backendError, commits, pc, diffPromises, pipelineVars, rebaseLog,
                 pushes, setFailed, caught>>

\* line 187-197: the rebase stops with an error (conflict, failing script)
RebaseFails ==
  /\ pc = "rebase"
  /\ Throw("rebase failed")
  /\ UNCHANGED <<eventName, cliVars, gitConfig, backendError, commits, diffPromises, pipelineVars, rewriteVars>>

\* line 197-208: the rebase completed; the temporary files are removed and
\* 'git status' is run
RebaseDone ==
  /\ pc = "rebase"
  /\ Len(replayed) = Len(commits)
  /\ IF UnlinkedFiles(commits) \subseteq DOMAIN disk
     THEN /\ disk' = Unlink(disk, UnlinkedFiles(commits))
          /\ pc' = "gitStatus"
          /\ UNCHANGED <<setFailed, caught>>
     ELSE /\ Throw("ENOENT")
          /\ UNCHANGED disk
  /\ UNCHANGED <<eventName, cliVars, gitConfig, backendError, commits, diffPromises, pipelineVars, rebaseLog,
                 replayed, pushes>>

\* A slip: the result of 'git status' is ignored and the push is invoked.
GitStatusDonePushingAnyway ==
  /\ pc = "gitStatus"
  /\ pushes' = pushes + 1
  /\ \E ok \in BOOLEAN :
       IF ok
       THEN pc' = "push" /\ UNCHANGED <<setFailed, caught>>
       ELSE Throw("git status failed")
  /\ UNCHANGED <<eventName, cliVars, gitConfig, backendError, commits, diffPromises, pipelineVars, disk, rebaseLog,
                 replayed>>

\* line 208-211: 'git status' ends; on success the force push is invoked
GitStatusDone ==
  /\ pc = "gitStatus"
  /\ \E ok \in BOOLEAN :
       IF ok
       THEN /\ pushes' = pushes + 1
            /\ pc' = "push"
            /\ UNCHANGED <<setFailed, caught>>
       ELSE /\ Throw("git status failed")
            /\ UNCHANGED pushes
  /\ UNCHANGED <<eventName, cliVars, gitConfig, backendError, commits, diffPromises, pipelineVars, disk, rebaseLog,
                 replayed>>

\* line 211-213: the force push ends
PushDone ==
  /\ pc = "push"
  /\ \E ok \in BOOLEAN :
       IF ok
       THEN pc' = "done" /\ UNCHANGED <<setFailed, caught>>
       ELSE Throw("push failed")
  /\ UNCHANGED <<eventName, cliVars, gitConfig, backendError, commits, diffPromises, pipelineVars, rewriteVars>>

-----------------------------------------------------------------------------

Next ==
  \/ RunStart
  \/ GitSetupDone
  \/ \E i \in DOMAIN diffPromises : CommitDiffSettles(i)
  \/ DiffsRejected
  \/ DiffsFulfilled
  \/ \E i \in 0..(Len(improvePromises) - 1) : GenerationSettles(i)
  \/ UnhandledRejection
  \/ ChunkSucceeds
  \/ ChunkFails
  \/ WakeAfterSuccess
  \/ WakeAfterFailure
  \/ ChmodDone
  \/ RebaseStep
  \/ RebaseFails
  \/ RebaseDone
  \/ GitStatusDone
  \/ PushDone

Spec == Init /\ [][Next]_vars

\* The event loop runs every continuation that is ready, timers fire and
\* every request and child process eventually ends.  The process is not
\* required to be killed by an unhandled rejection.
Fairness ==
  /\ WF_vars(RunStart) /\ WF_vars(GitSetupDone)
  /\ WF_vars(\E i \in DOMAIN diffPromises : CommitDiffSettles(i))
  /\ WF_vars(DiffsRejected) /\ WF_vars(DiffsFulfilled)
  /\ WF_vars(\E i \in 0..(Len(improvePromises) - 1) : GenerationSettles(i))
  /\ WF_vars(ChunkSucceeds) /\ WF_vars(ChunkFails)
  /\ WF_vars(WakeAfterSuccess) /\ WF_vars(WakeAfterFailure)
  /\ WF_vars(ChmodDone) /\ WF_vars(RebaseStep \/ RebaseFails) /\ WF_vars(RebaseDone)
  /\ WF_vars(GitStatusDone) /\ WF_vars(PushDone)

FairSpec == Spec /\ Fairness

TypeOK ==
  /\ pc \in {"start", "gitSetup", "fetching", "awaitChunk", "sleepShort",
             "sleepLong", "chmod", "rebase", "gitStatus", "push", "done", "crashed"}
  /\ chunkSize \in {0, 3, 4}
  /\ sleepFor \in {0} \cup ShortSleeps \cup LongSleeps
  /\ pushes \in 0..1
  /\ backoffs \in 0..MaxBackoffs
  /\ caught.kind \in {"none", "Error", "other"}
  /\ backendError \in BackendErrors
  /\ gitConfig \subseteq {"user.email", "user.name"}
  /\ iterations \in 0..MaxIterations
  /\ shortSleeps \in 0..MaxCommits

-----------------------------------------------------------------------------
(* Properties of improveMessagesInChunks *)

\* improveMessagesInChunks was invoked and has returned its result.
Returned == chunkSize # 0 /\ ~InPipeline /\ pc # "crashed"

\* C1: whenever improveMessagesInChunks has returned, the result has as many
\* entries as the input and entry i carries the sha of input record i and
\* the message generated from the diff of input record i, whatever the
\* order in which the requests settled.
C1_OutputAlignedWithInput ==
  Returned =>
    /\ Len(improvedMessagesAndSHAs) = Len(diffsAndSHAs)
    /\ \A i \in 1..Len(diffsAndSHAs) :
         /\ improvedMessagesAndSHAs[i].sha = diffsAndSHAs[i].sha
         /\ improvedMessagesAndSHAs[i].msg = Generated(diffsAndSHAs[i].diff)

\* A run of two chunks of size 3 has returned.
C1_Witness ==
  /\ Returned
  /\ chunkSize = 3
  /\ Len(diffsAndSHAs) > chunkSize
  /\ Len(improvedMessagesAndSHAs) = Len(diffsAndSHAs)

\* The chunk awaited at offset s covers the indices s .. min(s + size, n) - 1.
ExpectedChunk(s, size, n) ==
  {i \in 0..(n - 1) : s <= i /\ i <= s + size - 1}

C2_Sizes ==
  chunkSize # 0 =>
    LET n == Len(diffsAndSHAs) IN
      /\ n >= 1
      /\ (n % 2 = 0) => chunkSize = 4
      /\ (n % 2 = 1) => chunkSize = 3
      /\ InPipeline =>
           /\ step \in 0..(n - 1)
           /\ step % chunkSize = 0
           /\ ChunkIndices = ExpectedChunk(step, chunkSize, n)
           /\ (step + chunkSize <= n) => Cardinality(ChunkIndices) = chunkSize
      \* the chunks before the awaited one cover 0 .. step - 1 exactly once
      /\ pc = "awaitChunk" => Len(improvedMessagesAndSHAs) = step
      /\ pc = "sleepShort" =>
           Len(improvedMessagesAndSHAs) = step + Cardinality(ChunkIndices)

\* C2: the chunk size is 4 for an even and 3 for an odd number of commits,
\* it is fixed when improveMessagesInChunks starts, every chunk but the last
\* has exactly that many entries and the chunks partition the input.
C2_ChunkSizeAndPartition ==
  /\ []C2_Sizes
  /\ [][chunkSize # 0 => chunkSize' = chunkSize]_vars

\* The second chunk of an even input is awaited.
C2_Witness ==
  /\ pc = "awaitChunk"
  /\ chunkSize = 4
  /\ step = 4
  /\ Cardinality(ChunkIndices) = 2

\* The 0-based index of the chunk request i belongs to.
ChunkOf(i) == i \div chunkSize

\* C3: at no point are generation requests of two different chunks
\* outstanding (issued and not settled) at the same time.
C3_OneChunkOutstanding ==
  \A i, j \in 0..(Len(improvePromises) - 1) :
    (improvePromises[i + 1].state = "pending" /\
     improvePromises[j + 1].state = "pending") => ChunkOf(i) = ChunkOf(j)

\* C4: when a request of the chunk at offset s fails, one backoff of
\* 60000 + 1000*U(1,5) ms follows and then the chunk with the same indices
\* is awaited; the offset does not advance and does not move back.
C4_RetrySameChunk ==
  [][ /\ (pc = "awaitChunk" /\ ChunkRejected) =>
           /\ pc' \in {"awaitChunk", "sleepLong", "crashed"}
           /\ step' = step
      /\ (pc = "awaitChunk" /\ pc' = "sleepLong") =>
           sleepFor' \in {61000, 62000, 63000, 64000, 65000}
      /\ pc = "sleepLong" =>
           \/ pc' = "sleepLong" /\ sleepFor' = sleepFor /\ step' = step
           \/ pc' = "crashed" /\ step' = step
           \/ /\ pc' = "awaitChunk"
              /\ step' = step
              /\ ChunkIndices' = ChunkIndices
              /\ sleepFor' = 0
    ]_vars

\* A chunk that is not the first one is awaited again after a backoff.
C4_Witness ==
  /\ pc = "awaitChunk"
  /\ step > 0
  /\ backoffs >= 1
  /\ ChunkRejected

\* C5: once a request of a chunk has failed and the backoff is being slept,
\* improveMessagesInChunks eventually returns, with the entries of a run in
\* which nothing failed (a later attempt for the same diff succeeds).
C5_FailedChunkEventuallyReturns ==
  (pc = "sleepLong") ~>
     (Returned /\ \A i \in 1..Len(diffsAndSHAs) :
                    /\ improvedMessagesAndSHAs[i].sha = diffsAndSHAs[i].sha
                    /\ improvedMessagesAndSHAs[i].msg = Generated(diffsAndSHAs[i].diff))

\* C6: after a chunk whose every request succeeded only one short jittered
\* delay is slept before the next chunk is awaited (or the result returned);
\* a sleep of 60000 ms or more starts only at the failure of the awaited chunk.
C6_NoBackoffAfterSuccess ==
  [][ /\ (pc = "awaitChunk" /\ ChunkFulfilled) =>
           /\ pc' \in {"awaitChunk", "sleepShort", "crashed"}
           /\ backoffs' = backoffs
      /\ (pc = "awaitChunk" /\ pc' = "sleepShort") =>
           /\ ChunkFulfilled
           /\ \E a, b \in 1..5 : sleepFor' = 1000 * a + 100 * b
           /\ sleepFor' < 60000
      /\ pc = "sleepShort" =>
           /\ pc' # "sleepLong"
           /\ sleepFor' \in {0, sleepFor}
           /\ backoffs' = backoffs
      /\ (sleepFor' >= 60000 /\ sleepFor' # sleepFor) =>
           pc = "awaitChunk" /\ ChunkRejected /\ pc' = "sleepLong"
    ]_vars

\* The second chunk is awaited after the first succeeded, without any backoff.
C6_Witness ==
  /\ pc = "awaitChunk"
  /\ step = chunkSize
  /\ backoffs = 0
  /\ sleepFor = 0

-----------------------------------------------------------------------------
(* Properties of improveCommitMessages *)

TemporaryFiles(n) ==
  {CommitFile(i) : i \in 0..(n - 1)} \cup {"count.txt", "rebase-exec.sh"}

AllMessagesEqual ==
  \A i \in 1..Len(commits) : improvedMessagesAndSHAs[i].msg = commits[i].message

\* C7: if every improved message equals the original message at the same
\* index, nothing is written, no rebase and no push is invoked and the run
\* ends without error; if one differs, the rewrite is done for all N commits.
C7_NoOpWhenUnchanged ==
  Returned =>
    /\ AllMessagesEqual =>
         /\ pc = "done"
         /\ setFailed = ""
         /\ caught.kind = "none"
         /\ disk = InitialDisk
         /\ rebaseLog = <<>>
         /\ replayed = <<>>
         /\ pushes = 0
    /\ ~AllMessagesEqual =>
         /\ pc = "done" => (caught.kind # "none" \/ pushes = 1)
         /\ pc = "chmod" => DOMAIN disk = DOMAIN InitialDisk \cup TemporaryFiles(Len(commits))
         /\ pc \in {"gitStatus", "push"} => Len(replayed) = Len(commits)
         /\ (pc = "done" /\ caught.kind = "none") => Len(replayed) = Len(commits)

\* A push of several commits ended as a no-op after the generation.
C7_Witness ==
  /\ Returned
  /\ Len(commits) >= 2
  /\ AllMessagesEqual
  /\ pc = "done"

\* C8: with an empty commit list improveCommitMessages returns without
\* error: no diff is fetched, improveMessagesInChunks is not invoked, no
\* file is written, no rebase and no push is invoked.
C8_EmptyListIsNoOp ==
  Len(commits) = 0 =>
    /\ pc \in {"start", "gitSetup", "done"}
    /\ setFailed \in {"", "git failed"}
    /\ diffPromises = <<>>
    /\ chunkSize = 0
    /\ improvePromises = <<>>
    /\ disk = InitialDisk
    /\ rebaseLog = <<>>
    /\ pushes = 0

\* improveCommitMessages was called with the empty list and has returned.
C8_Witness ==
  /\ Len(commits) = 0
  /\ eventName = "push"
  /\ pc = "done"
  /\ caught.kind = "none"
  /\ setFailed = ""

\* C9: when a message differs, at the start of the rebase the disk holds
\* commit-0.txt .. commit-(N-1).txt with the improved message of the i-th
\* commit in commit-i.txt, count.txt with 0 and rebase-exec.sh; exactly one
\* rebase is invoked, anchored at the parent of the first commit.
C9_FilesBeforeRebase ==
  /\ Len(rebaseLog) <= 1
  /\ pc \in {"rebase", "gitStatus", "push"} => Len(rebaseLog) = 1
  /\ Len(rebaseLog) = 1 =>
       /\ rebaseLog[1] = commits[1].id \o "^"
       /\ ~AllMessagesEqual
  /\ (pc = "rebase" /\ replayed = <<>>) =>
       /\ DOMAIN disk = DOMAIN InitialDisk \cup TemporaryFiles(Len(commits))
       /\ Cardinality(TemporaryFiles(Len(commits))) = Len(commits) + 2
       /\ \A i \in 0..(Len(commits) - 1) :
            /\ disk[CommitFile(i)] = improvedMessagesAndSHAs[i + 1].msg
            /\ improvedMessagesAndSHAs[i + 1].sha = commits[i + 1].id
       /\ disk["count.txt"] = "0"
       /\ disk["rebase-exec.sh"] = ScriptText
  /\ (pc = "chmod") => rebaseLog = <<>>

\* The rebase of a push of several commits has just been invoked.
C9_Witness ==
  /\ pc = "rebase"
  /\ replayed = <<>>
  /\ Len(commits) >= 2
  /\ Len(rebaseLog) = 1

C10_Deleted ==
  (pc \in {"gitStatus", "push"} \/ (pc = "done" /\ pushes = 1)) =>
    /\ DOMAIN disk \cap TemporaryFiles(Len(commits)) = {}
    /\ disk = InitialDisk

\* C10: when the rebase completes, the N message files, count.txt and
\* rebase-exec.sh (the N + 2 files written) are all deleted; none of them
\* remains after a successful run.
C10_ArtifactsDeleted ==
  /\ []C10_Deleted
  /\ [][(pc = "rebase" /\ pc' = "gitStatus") =>
          /\ DOMAIN disk \ DOMAIN disk' = TemporaryFiles(Len(commits))
          /\ Cardinality(DOMAIN disk \ DOMAIN disk') = Len(commits) + 2
          /\ DOMAIN disk' \subseteq DOMAIN disk]_vars

\* A run that rewrote several commits ended successfully.
C10_Witness ==
  /\ pc = "done"
  /\ pushes = 1
  /\ caught.kind = "none"
  /\ setFailed = ""
  /\ Len(commits) >= 2
  /\ Len(replayed) = Len(commits)

-----------------------------------------------------------------------------
(* Properties of the error paths of run and improveCommitMessages *)

\* C11: if the chmod or the rebase fails, the run terminates as failed and
\* nothing is cleaned up: the N message files, count.txt and rebase-exec.sh
\* stay on disk, the rebase is neither aborted nor resumed (no second
\* rebase command) and no force push is issued.
C11_FailedRebaseLeavesFiles ==
  caught.message \in {"chmod failed", "rebase failed"} =>
    /\ pc = "done"
    /\ setFailed = caught.message
    /\ TemporaryFiles(Len(commits)) \subseteq DOMAIN disk
    /\ \A i \in 0..(Len(commits) - 1) :
         disk[CommitFile(i)] = improvedMessagesAndSHAs[i + 1].msg
    /\ Len(rebaseLog) <= 1
    /\ pushes = 0

\* C12: if the diff request of one commit fails, getDiffsBySHAs fails as a
\* whole: no diff is used, no generation request is issued, nothing is
\* written, rebased or pushed, and the error reaches the catch of run.
C12_DiffFetchFailsAtomically ==
  (\E i \in DOMAIN diffPromises : diffPromises[i].state = "rejected") =>
    /\ pc \in {"fetching", "done"}
    /\ pc = "done" => caught.message = "diff request failed"
    /\ diffsAndSHAs = <<>>
    /\ chunkSize = 0
    /\ improvePromises = <<>>
    /\ calls = <<>>
    /\ disk = InitialDisk
    /\ rebaseLog = <<>>
    /\ pushes = 0

\* The run ended on the failure of one diff request while others had arrived.
C12_Witness ==
  /\ pc = "done"
  /\ caught.message = "diff request failed"
  /\ \E i \in DOMAIN diffPromises : diffPromises[i].state = "rejected"
  /\ \E i \in DOMAIN diffPromises : diffPromises[i].state = "fulfilled"

\* C13: on an event that is not a push the run ends on a failure path: the
\* failure is signalled to the framework, and nothing is fetched,
\* generated, rewritten or pushed.
C13_WrongEventSignalsFailure ==
  (eventName # "push" /\ pc = "done") =>
    /\ setFailed # ""
    /\ diffPromises = <<>>
    /\ improvePromises = <<>>
    /\ disk = InitialDisk
    /\ rebaseLog = <<>>
    /\ pushes = 0

\* The no-op ends of improveCommitMessages: no commit, or no changed message.
NoOpDetected ==
  \/ Len(commits) = 0
  \/ Returned /\ AllMessagesEqual

\* C14: on a push event every value thrown in run is reported as a failure
\* with one message, and a run ends as success only after the push was
\* completed or a no-op was detected.
C14_EveryThrowSignalsFailure ==
  eventName = "push" =>
    /\ caught.kind # "none" => (pc = "done" /\ setFailed = caught.message)
    /\ (pc = "done" /\ setFailed = "") => (pushes = 1 \/ NoOpDetected)

-----------------------------------------------------------------------------
(* Properties of the retry loop of improveMessagesInChunks *)

\* The awaited chunk holds a request rejected for the given reason.
ChunkRejectedFor(reason) ==
  \E i \in ChunkIndices : improvePromises[i + 1] = RejectedWith(reason)

\* C15: a hard error of a generation request (authentication failure) is
\* propagated out of improveMessagesInChunks and is not retried: the loop
\* never backs off on a chunk that failed with such an error.
C15_HardErrorIsFatal ==
  pc = "sleepLong" => ~ChunkRejectedFor("unauthorized")

\* C16: each retry re-issues the requests of the failed chunk: when the
\* chunk is awaited again after k failures, generateCommitMessageByDiff has
\* been called k + 1 times for each diff of the chunk.
C16_RetryReissuesRequests ==
  (pc = "awaitChunk" /\ backoffs < MaxBackoffs) =>
    \A i \in ChunkIndices : calls[i + 1] = backoffs + 1

\* C17: when the awaited chunk fails, and during the backoff that follows,
\* the accumulated result is left as it is: nothing of the chunk is
\* appended and the entries of the earlier chunks stay in place.
C17_FailedChunkRecordsNothing ==
  [][((pc = "awaitChunk" /\ ChunkRejected) \/ pc = "sleepLong") =>
       /\ improvedMessagesAndSHAs' = improvedMessagesAndSHAs
       /\ Len(improvedMessagesAndSHAs') = step']_vars

\* The second chunk failed although one of its requests succeeded.
C17_Witness ==
  /\ pc = "sleepLong"
  /\ step > 0
  /\ Len(improvedMessagesAndSHAs) = step
  /\ \E i \in ChunkIndices : improvePromises[i + 1].state = "fulfilled"
  /\ \E i \in ChunkIndices : improvePromises[i + 1].state = "rejected"

\* C18: a chunk that fails on every attempt is retried without bound: from
\* its failure on the loop only alternates between awaiting the chunk and
\* the long backoff, at the same offset, and nothing more is recorded,
\* written, rebased or pushed.
C18_FailingChunkRetriedForever ==
  [][((pc = "awaitChunk" /\ ChunkRejected) \/ pc = "sleepLong") =>
       /\ pc' \in {"awaitChunk", "sleepLong"}
       /\ step' = step
       /\ improvedMessagesAndSHAs' = improvedMessagesAndSHAs
       /\ disk' = InitialDisk /\ rebaseLog' = <<>> /\ pushes' = 0]_vars

-----------------------------------------------------------------------------
(* Properties of the rewrite *)

C19_Counter ==
  /\ pc = "chmod" => disk[CountFile] = "0"
  /\ pc = "rebase" =>
       /\ Len(replayed) <= Len(commits)
       /\ disk[CountFile] = ToString(Len(replayed))
       /\ \A k \in 1..Len(replayed) :
            /\ replayed[k] = disk[CommitFile(k - 1)]
            /\ replayed[k] = improvedMessagesAndSHAs[k].msg

\* C19: count.txt starts at 0; each run of rebase-exec.sh amends the commit
\* just replayed with commit-<counter>.txt and then adds 1 to the counter,
\* so after k replayed commits the counter is k, the i-th replayed commit
\* got message file i, and after the whole rebase the counter is N.
C19_RewriteStepProtocol ==
  /\ []C19_Counter
  /\ [][replayed' # replayed =>
          LET count == ParseCount(disk[CountFile]) IN
            /\ replayed' = Append(replayed, disk[CommitFile(count)])
            /\ ParseCount(disk'[CountFile]) = count + 1
            /\ \A f \in DOMAIN disk \ {CountFile} : disk'[f] = disk[f]]_vars

\* The rebase replayed every commit of a push of several commits.
C19_Witness ==
  /\ pc = "rebase"
  /\ Len(commits) >= 2
  /\ Len(replayed) = Len(commits)
  /\ disk[CountFile] = ToString(Len(commits))

C20_Pushed ==
  /\ pushes <= 1
  /\ pushes = 1 =>
       /\ ~AllMessagesEqual
       /\ Len(rebaseLog) = 1
       /\ Len(replayed) = Len(commits)
       /\ DOMAIN disk \cap TemporaryFiles(Len(commits)) = {}
       /\ caught.kind # "none" => caught.message = "push failed"

\* C20: a run pushes at most once, and only after the messages were found
\* to differ, the files were written, the rebase completed and the files
\* were deleted, in this order; there is no push on a no-op path nor after
\* a failed step.
C20_PushOnlyAfterRewrite ==
  /\ []C20_Pushed
  /\ [][/\ (pc' = "chmod" /\ pc # "chmod") =>
             /\ MessagesChanged(improvedMessagesAndSHAs', commits)
             /\ disk = InitialDisk
             /\ TemporaryFiles(Len(commits)) \subseteq DOMAIN disk'
        /\ (pc' = "rebase" /\ pc # "rebase") =>
             /\ pc = "chmod"
             /\ TemporaryFiles(Len(commits)) \subseteq DOMAIN disk
        /\ (pc' = "gitStatus") =>
             /\ pc = "rebase"
             /\ Len(replayed) = Len(commits)
             /\ TemporaryFiles(Len(commits)) \subseteq DOMAIN disk
             /\ DOMAIN disk' \cap TemporaryFiles(Len(commits)) = {}
        /\ (pushes' # pushes) =>
             /\ pc = "gitStatus"
             /\ pushes = 0
             /\ caught.kind = "none"]_vars

\* The force push of a rewritten push of several commits was issued.
C20_Witness ==
  /\ pc = "push"
  /\ pushes = 1
  /\ Len(commits) >= 2
  /\ Len(replayed) = Len(commits)

-----------------------------------------------------------------------------
(* Properties of the whole run *)

\* The files, the rebase or the push change in this step.
RewriteMutates ==
  \/ disk' # disk
  \/ rebaseLog' # rebaseLog
  \/ replayed' # replayed
  \/ pushes' # pushes

\* The generation requests of the run were issued and every one completed.
GenerationCompleted ==
  /\ improvePromises # <<>>
  /\ \A i \in DOMAIN improvePromises : improvePromises[i].state = "fulfilled"

\* C21: the repository, the git configuration included, is mutated only by
\* the rewrite and only after every generation request has completed.
C21_RepositoryUntouchedUntilGenerated ==
  [][(RewriteMutates \/ gitConfig' # gitConfig) => GenerationCompleted]_vars

\* C21 as amended: the git identity is configured by run before any diff or
\* generation request is issued; apart from that the repository is mutated
\* only by the rewrite and only after every generation request completed.
C21_OnlyConfigBeforeGeneration ==
  [][/\ RewriteMutates => (GenerationCompleted /\ gitConfig' = gitConfig)
     /\ gitConfig' # gitConfig =>
          /\ pc = "gitSetup"
          /\ diffPromises = <<>> /\ improvePromises = <<>>
          /\ ~RewriteMutates]_vars

\* The files of a push of two chunks were written after the identity was set.
C21_Witness ==
  /\ pc = "chmod"
  /\ "user.name" \in gitConfig
  /\ Len(commits) > chunkSize
  /\ TemporaryFiles(Len(commits)) \subseteq DOMAIN disk
  /\ GenerationCompleted

-----------------------------------------------------------------------------
(* Further properties of the loop of improveMessagesInChunks *)

\* C22: at the start of every iteration of the chunk loop the number of
\* accumulated results equals the offset step, step is a multiple of
\* chunkSize with 0 <= step < N, and so the sha lookup at index length + i
\* addresses the i-th element of the awaited chunk.
C22_ResultLengthIsOffset ==
  pc = "awaitChunk" =>
    /\ Len(improvedMessagesAndSHAs) = step
    /\ step % chunkSize = 0
    /\ 0 <= step /\ step < Len(diffsAndSHAs)
    /\ Len(improvePromises) = Len(diffsAndSHAs)
    /\ \A k \in 1..Cardinality(ChunkIndices) :
         /\ step + k <= Len(diffsAndSHAs)
         /\ ShaOfSlot(Len(improvedMessagesAndSHAs), k - 1) = diffsAndSHAs[step + k].sha

\* The second chunk is awaited again after it failed.
C22_Witness ==
  /\ pc = "awaitChunk"
  /\ step > 0
  /\ backoffs > 0
  /\ ChunkRejected

\* ceil(n / size)
Ceil(n, size) == (n + size - 1) \div size

\* No generation request of the run has failed.
NoRequestFailed ==
  \A i \in DOMAIN improvePromises : improvePromises[i].state # "rejected"

C23_Counts ==
  /\ backoffs > 0 => ~NoRequestFailed
  /\ (chunkSize # 0 /\ backoffs = 0) =>
       /\ pc = "awaitChunk" =>
            /\ iterations = (step \div chunkSize) + 1
            /\ shortSleeps = iterations - 1
       /\ pc = "sleepShort" => shortSleeps = iterations
       /\ Returned =>
            /\ iterations = Ceil(Len(diffsAndSHAs), chunkSize)
            /\ shortSleeps = iterations

\* What is left to do of a run without failures: the requests to be
\* answered, and an await and a sleep for every chunk not yet completed.
Remaining ==
  Cardinality({i \in DOMAIN improvePromises : improvePromises[i].state = "pending"})
    + 2 * Ceil(Len(improvePromises) - step, chunkSize)
    + (IF pc = "awaitChunk" THEN 1 ELSE 0)

\* C23: if every generation request succeeds, improveMessagesInChunks
\* returns (as long as no request has failed a step of the loop is always
\* possible and every step lowers what remains to be done), after exactly
\* ceil(N / chunkSize) iterations and as many short sleeps, one after every
\* chunk (the return follows the sleep after the last chunk), and without
\* any long backoff.
C23_SuccessfulRunTerminates ==
  /\ []C23_Counts
  /\ [][(InPipeline /\ ~InPipeline' /\ pc' # "crashed") =>
          (pc = "sleepShort" /\ shortSleeps = iterations)]_vars
  /\ [][(InPipeline /\ InPipeline' /\ NoRequestFailed') =>
          (Remaining' < Remaining /\ Remaining' >= 0)]_vars
  /\ []((InPipeline /\ NoRequestFailed) =>
          ENABLED ((\E i \in 0..(Len(improvePromises) - 1) : GenerationSettles(i))
                     \/ ChunkSucceeds \/ WakeAfterSuccess))

\* A run of two chunks returned without a failure.
C23_Witness ==
  /\ Returned
  /\ NoRequestFailed
  /\ backoffs = 0
  /\ iterations = 2
  /\ shortSleeps = 2

-----------------------------------------------------------------------------
(* hookCommand (src/src/commands/githook.ts)                               *)
(* The command is invoked again and again on one repository; an action is  *)
(* the code between two awaits of an invocation.                           *)

\* line 13-15: __filename, and the path of the hook (getHooksPath)
HOOK_URL == "githook.js"
SYMLINK_URL == ".git/hooks/prepare-commit-msg"

\* what can be found at SYMLINK_URL, besides nothing
Symlink(target) == [kind |-> "symlink", target |-> target]
RegularFile(content) == [kind |-> "file", target |-> content]

\* fs.realpath of the entry at SYMLINK_URL: "oco-link" is a link to HOOK_URL,
\* "other-hook.sh" is a file, "missing" does not exist (ENOENT)
ENOENT == "ENOENT"
realpath(entry) ==
  CASE entry.kind = "absent" -> ENOENT
    [] entry.kind = "file" -> SYMLINK_URL
    [] entry.kind = "symlink" /\ entry.target \in {HOOK_URL, "oco-link"} -> HOOK_URL
    [] entry.kind = "symlink" /\ entry.target = "other-hook.sh" -> "other-hook.sh"
    [] OTHER -> ENOENT

\* line 31-34: existsSync follows links, a dangling link does not exist
existsSync(entry) == realpath(entry) # ENOENT

\* the hook path before the first invocation
InitialEntries ==
  {Absent, Symlink(HOOK_URL), Symlink("oco-link"), Symlink("other-hook.sh"),
   Symlink("missing"), RegularFile("#!/bin/sh")}

\* the arguments the command is invoked with
Modes == {"set", "unset", "status"}

\* everything but the variables of the hook command
notHookVars == <<actionVars, diffVars, prepareVars, commitVars>>

\* a repository on which the hook command is going to be invoked
HookInit ==
  /\ ActionIdle /\ DiffIdle /\ PrepareIdle /\ CommitIdle
  /\ hookPc = "idle"
  /\ mode = ""
  /\ hookEntry \in InitialEntries
  /\ hooksDir \in {b \in BOOLEAN : hookEntry = Absent \/ b}
  /\ exitCode = NotExited
  /\ invocations = 0
  /\ initialEntry = hookEntry

\* the invocation ends: the handler returns (code 0) or calls process.exit
Exit(code) ==
  /\ hookPc' = "idle"
  /\ exitCode' = code

\* line 41-45: the command is invoked; getHooksPath, then assertGitRepo
HookCommandStarts(m) ==
  /\ hookPc = "idle"
  /\ invocations < MaxInvocations
  /\ invocations' = invocations + 1
  /\ mode' = m
  /\ exitCode' = NotExited
  /\ hookPc' = "assertGitRepo"
  /\ UNCHANGED <<notHookVars, hookEntry, hooksDir, initialEntry>>

\* line 45-52, 76-81, 98-104: assertGitRepo ends; an unsupported mode throws
AssertGitRepoDone ==
  /\ hookPc = "assertGitRepo"
  /\ \E ok \in BOOLEAN :
       IF ok /\ mode \in {"set", "unset"}
       THEN hookPc' = "isHookExists" /\ UNCHANGED exitCode
       ELSE Exit(1)
  /\ UNCHANGED <<notHookVars, mode, hookEntry, hooksDir, invocations, initialEntry>>

\* line 52-53, 69, 81-85: isHookExists ends
IsHookExistsDone ==
  /\ hookPc = "isHookExists"
  /\ IF existsSync(hookEntry)
     THEN hookPc' = "realpath" /\ UNCHANGED exitCode
     ELSE IF mode = "set"
          THEN hookPc' = "mkdir" /\ UNCHANGED exitCode
          ELSE Exit(0)
  /\ UNCHANGED <<notHookVars, mode, hookEntry, hooksDir, invocations, initialEntry>>

\* line 54-67, 87-94: fs.realpath ends; 'set' goes on with null if it fails
RealpathDone ==
  /\ hookPc = "realpath"
  /\ \E ok \in BOOLEAN :
       LET realPath == IF ok THEN realpath(hookEntry) ELSE "null" IN
         IF mode = "set"
         THEN IF realPath = HOOK_URL THEN Exit(0) ELSE Exit(1)
         ELSE IF ~ok THEN Exit(1)
              ELSE IF realPath # HOOK_URL THEN Exit(0)
              ELSE hookPc' = "rm" /\ UNCHANGED exitCode
  /\ UNCHANGED <<notHookVars, mode, hookEntry, hooksDir, invocations, initialEntry>>

\* line 69-70: fs.mkdir of the directory of the hook, recursive
MkdirDone ==
  /\ hookPc = "mkdir"
  /\ \E ok \in BOOLEAN :
       IF ok
       THEN hooksDir' = TRUE /\ hookPc' = "symlink" /\ UNCHANGED exitCode
       ELSE Exit(1) /\ UNCHANGED hooksDir
  /\ UNCHANGED <<notHookVars, mode, hookEntry, invocations, initialEntry>>

\* A slip: the file is copied to the hook path instead of linked.
SymlinkDoneCopying ==
  /\ hookPc = "symlink"
  /\ \E ok \in {b \in BOOLEAN : b => hookEntry = Absent} :
       IF ok
       THEN hookEntry' = RegularFile(HOOK_URL) /\ hookPc' = "chmod" /\ UNCHANGED exitCode
       ELSE Exit(1) /\ UNCHANGED hookEntry
  /\ UNCHANGED <<notHookVars, mode, hooksDir, invocations, initialEntry>>

\* line 70-71: fs.symlink; it fails with EEXIST if something is at the path
SymlinkDone ==
  /\ hookPc = "symlink"
  /\ \E ok \in {b \in BOOLEAN : b => hookEntry = Absent} :
       IF ok
       THEN hookEntry' = Symlink(HOOK_URL) /\ hookPc' = "chmod" /\ UNCHANGED exitCode
       ELSE Exit(1) /\ UNCHANGED hookEntry
  /\ UNCHANGED <<notHookVars, mode, hooksDir, invocations, initialEntry>>

\* line 71-73: fs.chmod (of the file the link points to), then the return
HookChmodDone ==
  /\ hookPc = "chmod"
  /\ \E ok \in BOOLEAN : Exit(IF ok THEN 0 ELSE 1)
  /\ UNCHANGED <<notHookVars, mode, hookEntry, hooksDir, invocations, initialEntry>>

\* A slip: the path is removed, whatever it is.
RmDoneForced ==
  /\ hookPc \in {"rm", "realpath"}
  /\ mode = "unset"
  /\ hookEntry' = Absent
  /\ Exit(0)
  /\ UNCHANGED <<notHookVars, mode, hooksDir, invocations, initialEntry>>

\* line 96-97: fs.rm of the link
RmDone ==
  /\ hookPc = "rm"
  /\ \E ok \in BOOLEAN :
       IF ok
       THEN hookEntry' = Absent /\ Exit(0)
       ELSE Exit(1) /\ UNCHANGED hookEntry
  /\ UNCHANGED <<notHookVars, mode, hooksDir, invocations, initialEntry>>

HookNext ==
  \/ \E m \in Modes : HookCommandStarts(m)
  \/ AssertGitRepoDone
  \/ IsHookExistsDone
  \/ RealpathDone
  \/ MkdirDone
  \/ SymlinkDone
  \/ HookChmodDone
  \/ RmDone

HookSpec == HookInit /\ [][HookNext]_vars

HookTypeOK ==
  /\ hookPc \in {"idle", "assertGitRepo", "isHookExists", "realpath", "mkdir",
                 "symlink", "chmod", "rm"}
  /\ mode \in Modes \cup {""}
  /\ hookEntry \in InitialEntries
  /\ hooksDir \in BOOLEAN
  /\ exitCode \in {NotExited, 0, 1}
  /\ invocations \in 0..MaxInvocations

-----------------------------------------------------------------------------
(* Properties of hookCommand *)

\* Something is at the hook path that does not resolve to opencommit's file.
Foreign(entry) == entry.kind # "absent" /\ realpath(entry) # HOOK_URL

\* An invocation with the given argument has ended.
Ended(m) == hookPc = "idle" /\ invocations > 0 /\ mode = m

\* C24: a hook that is at the hook path and does not resolve to opencommit's
\* own file is never modified, replaced or removed by any sequence of 'set'
\* and 'unset'; 'set' ends with exit code 1, 'unset' removes nothing.
C24_ForeignHookIsKept ==
  Foreign(initialEntry) =>
    /\ hookEntry = initialEntry
    /\ hookPc \notin {"chmod", "rm"}
    /\ Ended("set") => exitCode = 1

\* 'unset' ended without an error on a foreign hook, after another invocation.
C24_Witness ==
  /\ Foreign(initialEntry)
  /\ Ended("unset")
  /\ invocations >= 2
  /\ exitCode = 0

\* The invocation is a 'set' on a set hook, or an 'unset' on an absent one.
NothingToDo ==
  /\ hookPc \in {"assertGitRepo", "isHookExists", "realpath"}
  /\ \/ mode = "set" /\ hookEntry = Symlink(HOOK_URL)
     \/ mode = "unset" /\ hookEntry = Absent

\* C25: starting without a hook, after any sequence of 'set' and 'unset'
\* the hook path is absent or a link to opencommit's own file, it is there
\* exactly when the last invocation was 'set', and a 'set' on a set hook and
\* an 'unset' on an absent hook change nothing and do not exit with an error.
C25_SetUnsetToggle ==
  /\ [](initialEntry = Absent =>
          /\ hookEntry \in {Absent, Symlink(HOOK_URL)}
          /\ Ended("set") => hookEntry = Symlink(HOOK_URL)
          /\ Ended("unset") => hookEntry = Absent)
  /\ [][(initialEntry = Absent /\ NothingToDo) =>
          (hookEntry' = hookEntry /\ exitCode' # 1)]_vars

\* C25 as amended: starting without a hook, after any sequence of 'set' and
\* 'unset' the hook path is absent or a link to opencommit's own file;
\* after an invocation that ended without an error it is there exactly when
\* that invocation was 'set'; a 'set' on a set hook and an 'unset' on an
\* absent hook change nothing and exit with an error only if assertGitRepo
\* or fs.realpath fails.
C25_ToggleWhenNoError ==
  /\ [](initialEntry = Absent =>
          /\ hookEntry \in {Absent, Symlink(HOOK_URL)}
          /\ (Ended("set") /\ exitCode = 0) => hookEntry = Symlink(HOOK_URL)
          /\ (Ended("unset") /\ exitCode = 0) => hookEntry = Absent)
  /\ [][(initialEntry = Absent /\ NothingToDo) =>
          /\ hookEntry' = hookEntry
          /\ hookPc' \notin {"mkdir", "symlink", "chmod"}
          /\ exitCode' = 1 => hookPc \in {"assertGitRepo", "realpath"}
          /\ (exitCode' = 1 /\ mode = "unset") => hookPc = "assertGitRepo"]_vars

\* The hook was set, set again, and then removed.
C25_Witness ==
  /\ initialEntry = Absent
  /\ Ended("unset")
  /\ invocations = 3
  /\ exitCode = 0
  /\ hooksDir
  /\ hookEntry = Absent

-----------------------------------------------------------------------------
(* getDiff (src/unnamed/part_002)                                          *)
(* A file name is the sequence of its characters.                          *)

YarnLock == <<"y", "a", "r", "n", ".", "l", "o", "c", "k">>
PackageLock == <<"p", "a", "c", "k", "a", "g", "e", "-", "l", "o", "c", "k", ".", "j", "s", "o", "n">>
LogoSvg == <<"l", "o", "g", "o", ".", "s", "v", "g">>
ShotPng == <<"s", "h", "o", "t", ".", "p", "n", "g">>
PhotoJpg == <<"p", "h", "o", "t", "o", ".", "j", "p", "g">>
ScanJpeg == <<"s", "c", "a", "n", ".", "j", "p", "e", "g">>
HeroWebp == <<"h", "e", "r", "o", ".", "w", "e", "b", "p">>
AnimGif == <<"a", "n", "i", "m", ".", "g", "i", "f">>
IndexTs == <<"i", "n", "d", "e", "x", ".", "t", "s">>
Readme == <<"R", "E", "A", "D", "M", "E", ".", "m", "d">>

\* the file names the lists given to getDiff are made of
FileNames ==
  {YarnLock, PackageLock, LogoSvg, ShotPng, PhotoJpg,
   ScanJpeg, HeroWebp, AnimGif, IndexTs, Readme}

\* the lists of at most MaxFiles file names
FileLists == UNION {[1..n -> FileNames] : n \in 0..MaxFiles}

\* String.prototype.includes: pattern occurs in file as a substring
includes(file, pattern) ==
  \E i \in 1..(Len(file) - Len(pattern) + 1) :
    SubSeq(file, i, i + Len(pattern) - 1) = pattern

\* line 73-83: the patterns of the files named in the outro
AnnouncedPatterns ==
  {<<".", "l", "o", "c", "k">>, <<"-", "l", "o", "c", "k", ".">>,
   <<".", "s", "v", "g">>, <<".", "p", "n", "g">>, <<".", "j", "p", "g">>,
   <<".", "j", "p", "e", "g">>, <<".", "w", "e", "b", "p">>, <<".", "g", "i", "f">>}

\* line 91-93: the patterns of the files that are left out
LockPatterns == {<<".", "l", "o", "c", "k">>, <<"-", "l", "o", "c", "k", ".">>}

\* line 73-83
lockFiles(list) ==
  SelectSeq(list, LAMBDA file : \E pattern \in AnnouncedPatterns : includes(file, pattern))

\* line 91-93
filesWithoutLocks(list) ==
  SelectSeq(list, LAMBDA file : \A pattern \in LockPatterns : ~includes(file, pattern))

\* the text 'git diff --staged' prints for the files it is given
StagedDiffOf(list) == "staged-" \o ToString(Len(list))

\* everything but the variables of getDiff
notDiffVars == <<actionVars, hookVars, exitCode, prepareVars, commitVars>>

\* getDiff is called with a list of files
DiffInit ==
  /\ ActionIdle /\ HookIdle /\ PrepareIdle /\ CommitIdle /\ exitCode = NotExited
  /\ stagedFiles \in FileLists
  /\ diffPc = "called"
  /\ announced = <<>>
  /\ diffArgs = <<>>

\* line 72-98: getDiff: the outro, then 'git diff', which returns or throws
GetDiff ==
  /\ diffPc = "called"
  /\ announced' = lockFiles(stagedFiles)
  /\ diffArgs' = filesWithoutLocks(stagedFiles)
  /\ diffPc' \in {"returned", "thrown"}
  /\ UNCHANGED <<notDiffVars, stagedFiles>>

DiffNext == GetDiff

DiffSpec == DiffInit /\ [][DiffNext]_vars

\* the elements of a sequence
Range(list) == {list[i] : i \in DOMAIN list}

\* C28: every file that getDiff announces as excluded from the diff is
\* left out of the list passed to 'git diff --staged', and every file that
\* is not announced is passed.
C28_AnnouncedFilesAreExcluded ==
  diffPc \in {"returned", "thrown"} =>
    \A i \in DOMAIN stagedFiles :
      (stagedFiles[i] \in Range(announced)) <=> (stagedFiles[i] \notin Range(diffArgs))

-----------------------------------------------------------------------------
(* prepareCommitMessageHook (src/unnamed/part_001)                         *)

\* the lists of staged files the commands are explored with
StagedLists == {<<>>, <<IndexTs>>, <<IndexTs, YarnLock>>}

\* the contents of the message file git hands to the hook
MessageFiles == {"", "# Please enter the commit message", "Merge branch\n# comment"}

\* An array is truthy, also an empty one (line 24, 33).
Truthy(list) == TRUE

\* everything but the variables of prepareCommitMessageHook and the exit code
notPrepareVars == <<actionVars, hookVars, commitVars>>

\* git runs the hook (line 10-12)
PrepareInit ==
  /\ ActionIdle /\ HookIdle /\ CommitIdle /\ exitCode = NotExited
  /\ stagedFiles \in StagedLists
  /\ diffPc = "idle" /\ announced = <<>> /\ diffArgs = <<>>
  /\ prepPc = "called"
  /\ argv \in [messageFilePath : {"", ".git/COMMIT_EDITMSG"},
               commitSource : {"", "message", "merge"}]
  /\ isStageAllFlag \in BOOLEAN
  /\ apiKey \in BOOLEAN
  /\ messageFile \in MessageFiles
  /\ previousContent = messageFile

\* line 53-56: an error is caught, the process exits with code 1
PrepareThrow ==
  /\ prepPc' = "exited"
  /\ exitCode' = 1

\* a return of the hook: the process ends with code 0
PrepareReturn ==
  /\ prepPc' = "returned"
  /\ exitCode' = 0

\* line 13-23, 31: from the call to the first await
PrepareStarts ==
  /\ prepPc = "called"
  /\ IF argv.messageFilePath = "" THEN PrepareThrow
     ELSE IF argv.commitSource # "" THEN PrepareReturn
     ELSE /\ prepPc' = IF isStageAllFlag THEN "getChangedFiles" ELSE "getStagedFiles"
          /\ UNCHANGED exitCode
  /\ UNCHANGED <<notPrepareVars, diffVars, argv, isStageAllFlag, apiKey, messageFile,
                 previousContent>>

\* line 22-29: getChangedFiles ends; its result is an array
GetChangedFilesDone ==
  /\ prepPc = "getChangedFiles"
  /\ \E ok \in BOOLEAN, changedFiles \in StagedLists :
       IF ~ok THEN PrepareThrow
       ELSE IF Truthy(changedFiles) THEN prepPc' = "gitAdd" /\ UNCHANGED exitCode
       ELSE PrepareThrow
  /\ UNCHANGED <<notPrepareVars, diffVars, argv, isStageAllFlag, apiKey, messageFile,
                 previousContent>>

\* line 24, 31: gitAdd ends
GitAddDone ==
  /\ prepPc = "gitAdd"
  /\ \E ok \in BOOLEAN :
       IF ok THEN prepPc' = "getStagedFiles" /\ UNCHANGED exitCode ELSE PrepareThrow
  /\ UNCHANGED <<notPrepareVars, diffVars, argv, isStageAllFlag, apiKey, messageFile,
                 previousContent>>

\* line 31-46: getStagedFiles ends; the key is checked and getDiff is called
GetStagedFilesDone ==
  /\ prepPc = "getStagedFiles"
  /\ \E ok \in BOOLEAN :
       IF ~ok THEN PrepareThrow /\ UNCHANGED diffPc
       ELSE IF ~Truthy(stagedFiles) THEN PrepareReturn /\ UNCHANGED diffPc
       ELSE IF ~apiKey THEN PrepareThrow /\ UNCHANGED diffPc
       ELSE prepPc' = "getDiff" /\ diffPc' = "called" /\ UNCHANGED exitCode
  /\ UNCHANGED <<notPrepareVars, stagedFiles, announced, diffArgs, argv, isStageAllFlag,
                 apiKey, messageFile, previousContent>>

\* line 46: getDiff has ended, generateCommitMessageByDiff is called
GetDiffTaken ==
  /\ prepPc = "getDiff"
  /\ diffPc \in {"returned", "thrown"}
  /\ diffPc' = "idle"
  /\ IF diffPc = "returned"
     THEN prepPc' = "generate" /\ UNCHANGED exitCode
     ELSE PrepareThrow
  /\ UNCHANGED <<notPrepareVars, stagedFiles, announced, diffArgs, argv, isStageAllFlag,
                 apiKey, messageFile, previousContent>>

\* line 46-49: the generation request ends; the message file is read
GenerateDone ==
  /\ prepPc = "generate"
  /\ \E ok \in BOOLEAN :
       IF ok THEN prepPc' = "readFile" /\ UNCHANGED exitCode ELSE PrepareThrow
  /\ UNCHANGED <<notPrepareVars, diffVars, argv, isStageAllFlag, apiKey, messageFile,
                 previousContent>>

\* line 49-51: fs.readFile ends; the new content is written
ReadFileDone ==
  /\ prepPc = "readFile"
  /\ \E ok \in BOOLEAN :
       IF ok THEN prepPc' = "writeFile" /\ UNCHANGED exitCode ELSE PrepareThrow
  /\ UNCHANGED <<notPrepareVars, diffVars, argv, isStageAllFlag, apiKey, messageFile,
                 previousContent>>

\* A slip: the previous content of the file is dropped.
WriteFileDoneOverwriting ==
  /\ prepPc = "writeFile"
  /\ \E ok \in BOOLEAN :
       IF ok
       THEN /\ messageFile' = Generated(StagedDiffOf(diffArgs)) \o "\n"
            /\ PrepareReturn
       ELSE PrepareThrow /\ UNCHANGED messageFile
  /\ UNCHANGED <<notPrepareVars, diffVars, argv, isStageAllFlag, apiKey, previousContent>>

\* line 51-52: fs.writeFile ends
WriteFileDone ==
  /\ prepPc = "writeFile"
  /\ \E ok \in BOOLEAN :
       IF ok
       THEN /\ messageFile' = Generated(StagedDiffOf(diffArgs)) \o "\n" \o messageFile
            /\ PrepareReturn
       ELSE PrepareThrow /\ UNCHANGED messageFile
  /\ UNCHANGED <<notPrepareVars, diffVars, argv, isStageAllFlag, apiKey, previousContent>>

PrepareNext ==
  \/ PrepareStarts
  \/ GetChangedFilesDone
  \/ GitAddDone
  \/ GetStagedFilesDone
  \/ GetDiff
  \/ GetDiffTaken
  \/ GenerateDone
  \/ ReadFileDone
  \/ WriteFileDone

PrepareSpec == PrepareInit /\ [][PrepareNext]_vars

\* the message generated for the staged files
HookMessage == Generated(StagedDiffOf(filesWithoutLocks(stagedFiles)))

C26_File ==
  /\ messageFile # previousContent =>
       /\ prepPc = "returned"
       /\ exitCode = 0
       /\ messageFile = HookMessage \o "\n" \o previousContent
  /\ (argv.commitSource # "" \/ argv.messageFilePath = "" \/ ~apiKey) =>
       messageFile = previousContent
  /\ prepPc = "exited" => (exitCode = 1 /\ messageFile = previousContent)
  /\ exitCode = 1 => prepPc = "exited"

\* C26: prepareCommitMessageHook writes the message file only where the
\* generation succeeded, and then the content is the generated message, a
\* newline and the whole previous content; on every other path (commit
\* source given, no message file path, no API key, an error of git or of the
\* generation) the file is left as it was, and the error paths exit with 1.
C26_MessageFileWrittenOnSuccess ==
  /\ []C26_File
  /\ [][messageFile' # messageFile =>
          /\ prepPc = "writeFile"
          /\ diffPc = "idle" /\ diffArgs = filesWithoutLocks(stagedFiles)
          /\ argv.commitSource = "" /\ argv.messageFilePath # "" /\ apiKey]_vars
  /\ [][prepPc' = "writeFile" => prepPc \in {"readFile", "writeFile"}]_vars
  /\ [][prepPc' = "readFile" => prepPc \in {"generate", "readFile"}]_vars

\* The message was put in front of the content git had prepared.
C26_Witness ==
  /\ prepPc = "returned"
  /\ previousContent # ""
  /\ messageFile = HookMessage \o "\n" \o previousContent
  /\ stagedFiles = <<IndexTs, YarnLock>>

-----------------------------------------------------------------------------
(* The interactive commit flow (src/unnamed/part_000): the call of         *)
(* generateCommitMessageFromGitDiff in commit, line 189-198                *)

\* the answers of the user to a prompt of @clack/prompts
Answers == {"yes", "no", "cancel"}

\* everything but the variables of the commit flow, getDiff and the exit code
notCommitVars == <<actionVars, hookVars, prepareVars>>

\* commit has found staged files and calls getDiff (line 186-190)
CommitInit ==
  /\ ActionIdle /\ HookIdle /\ PrepareIdle /\ exitCode = NotExited
  /\ stagedFiles \in StagedLists \ {<<>>}
  /\ diffPc = "called" /\ announced = <<>> /\ diffArgs = <<>>
  /\ commitPc = "getDiff"
  /\ extraArguments \in {<<>>, <<"--no-verify">>, <<"--signoff", "--no-verify">>}
  /\ remotes \in {<<>>, <<"origin">>, <<"origin", "upstream">>}
  /\ confirmed = "not asked"
  /\ gitCommands = <<>>

\* process.exit, or the end of the process by a rejection nobody handles
CommitExit(code) ==
  /\ commitPc' = "exited"
  /\ exitCode' = code

\* line 189-190: getDiff has ended; it is awaited outside trytm and any
\* try block, so its error ends the process
CommitDiffTaken ==
  /\ commitPc = "getDiff"
  /\ diffPc \in {"returned", "thrown"}
  /\ diffPc' = "idle"
  /\ IF diffPc = "returned"
     THEN commitPc' = "assertGitRepo" /\ UNCHANGED exitCode
     ELSE CommitExit(1)
  /\ UNCHANGED <<notCommitVars, stagedFiles, announced, diffArgs, extraArguments, remotes,
                 confirmed, gitCommands>>

\* line 31, 189-196: assertGitRepo ends; its error is returned by trytm
CommitAssertGitRepoDone ==
  /\ commitPc = "assertGitRepo"
  /\ \E ok \in BOOLEAN :
       IF ok THEN commitPc' = "generate" /\ UNCHANGED exitCode ELSE CommitExit(1)
  /\ UNCHANGED <<notCommitVars, diffVars, extraArguments, remotes, confirmed, gitCommands>>

\* line 36-57, 114-123: the generation ends; the message is shown and the
\* user is asked to confirm it
CommitGenerateDone ==
  /\ commitPc = "generate"
  /\ \E ok \in BOOLEAN :
       IF ok THEN commitPc' = "confirmCommit" /\ UNCHANGED exitCode ELSE CommitExit(1)
  /\ UNCHANGED <<notCommitVars, diffVars, extraArguments, remotes, confirmed, gitCommands>>

\* A slip: the answer is not tested with isCancel, the cancel symbol is truthy.
ConfirmCommitAnsweredWithoutIsCancel ==
  /\ commitPc = "confirmCommit"
  /\ \E answer \in Answers :
       /\ confirmed' = answer
       /\ IF answer \in {"yes", "cancel"}
          THEN /\ gitCommands' = Append(gitCommands, "commit")
               /\ commitPc' = "gitCommit"
               /\ UNCHANGED exitCode
          ELSE CommitExit(0) /\ UNCHANGED gitCommands
  /\ UNCHANGED <<notCommitVars, diffVars, extraArguments, remotes>>

\* line 55-60, 115, 198: the user answers; 'git commit' is run on a yes
ConfirmCommitAnswered ==
  /\ commitPc = "confirmCommit"
  /\ \E answer \in Answers :
       /\ confirmed' = answer
       /\ IF answer = "yes"
          THEN /\ gitCommands' = Append(gitCommands, "commit")
               /\ commitPc' = "gitCommit"
               /\ UNCHANGED exitCode
          ELSE CommitExit(0) /\ UNCHANGED gitCommands
  /\ UNCHANGED <<notCommitVars, diffVars, extraArguments, remotes>>

\* line 60-66, 13-16, 116-124: 'git commit' ends; 'git remote' is run
GitCommitDone ==
  /\ commitPc = "gitCommit"
  /\ \E ok \in BOOLEAN :
       IF ok
       THEN /\ gitCommands' = Append(gitCommands, "commit ok")
            /\ commitPc' = "gitRemote"
            /\ UNCHANGED exitCode
       ELSE /\ gitCommands' = Append(gitCommands, "commit failed")
            /\ CommitExit(1)
  /\ UNCHANGED <<notCommitVars, diffVars, extraArguments, remotes, confirmed>>

\* line 66-91: 'git remote' ends; with no remote 'git push' is run at once,
\* with one the user is asked, with several the user selects one
GitRemoteDone ==
  /\ commitPc = "gitRemote"
  /\ \E ok \in BOOLEAN :
       IF ~ok THEN CommitExit(1) /\ UNCHANGED gitCommands
       ELSE IF Len(remotes) = 0
            THEN /\ gitCommands' = Append(gitCommands, "push")
                 /\ commitPc' = "gitPush"
                 /\ UNCHANGED exitCode
            ELSE /\ commitPc' = IF Len(remotes) = 1 THEN "confirmPush" ELSE "selectRemote"
                 /\ UNCHANGED <<exitCode, gitCommands>>
  /\ UNCHANGED <<notCommitVars, diffVars, extraArguments, remotes, confirmed>>

\* line 74-90: the user answers 'Do you want to run git push?'
ConfirmPushAnswered ==
  /\ commitPc = "confirmPush"
  /\ \E answer \in Answers :
       IF answer = "yes"
       THEN /\ gitCommands' = Append(gitCommands, "push")
            /\ commitPc' = "gitPush"
            /\ UNCHANGED exitCode
       ELSE CommitExit(0) /\ UNCHANGED gitCommands
  /\ UNCHANGED <<notCommitVars, diffVars, extraArguments, remotes, confirmed>>

\* line 93-113, 198: the user selects a remote or cancels
SelectRemoteAnswered ==
  /\ commitPc = "selectRemote"
  /\ \E selected \in Range(remotes) \cup {"cancel"} :
       IF selected # "cancel"
       THEN /\ gitCommands' = Append(gitCommands, "push")
            /\ commitPc' = "gitPush"
            /\ UNCHANGED exitCode
       ELSE CommitExit(0) /\ UNCHANGED gitCommands
  /\ UNCHANGED <<notCommitVars, diffVars, extraArguments, remotes, confirmed>>

\* line 69-71, 84-88, 106-112, 116-124, 198: 'git push' ends
GitPushDone ==
  /\ commitPc = "gitPush"
  /\ \E ok \in BOOLEAN :
       /\ gitCommands' = Append(gitCommands, IF ok THEN "push ok" ELSE "push failed")
       /\ CommitExit(IF ok THEN 0 ELSE 1)
  /\ UNCHANGED <<notCommitVars, diffVars, extraArguments, remotes, confirmed>>

CommitNext ==
  \/ GetDiff
  \/ CommitDiffTaken
  \/ CommitAssertGitRepoDone
  \/ CommitGenerateDone
  \/ ConfirmCommitAnswered
  \/ GitCommitDone
  \/ GitRemoteDone
  \/ ConfirmPushAnswered
  \/ SelectRemoteAnswered
  \/ GitPushDone

CommitSpec == CommitInit /\ [][CommitNext]_vars

\* the positions of an entry in the log of git commands
Positions(entry) == {i \in DOMAIN gitCommands : gitCommands[i] = entry}

C27_Log ==
  /\ Positions("commit") # {} => confirmed = "yes"
  /\ confirmed \in {"no", "cancel"} =>
       (gitCommands = <<>> /\ commitPc = "exited" /\ exitCode = 0)
  /\ Cardinality(Positions("commit")) <= 1
  /\ Cardinality(Positions("push")) <= 1
  /\ \A i \in Positions("push") : \E j \in Positions("commit ok") : j < i
  /\ Positions("commit failed") # {} =>
       (Positions("push") = {} /\ commitPc = "exited" /\ exitCode = 1)

\* C27: in the interactive commit flow 'git commit' is run only after the
\* user confirmed the generated message and 'git push' only after that
\* commit succeeded; if the user declines or cancels the confirmation
\* neither is run, and no push is run after a failed commit.
C27_CommitAndPushAreGuarded ==
  /\ []C27_Log
  /\ [][gitCommands' # gitCommands =>
          \E entry \in {"commit", "commit ok", "commit failed", "push", "push ok", "push failed"} :
            /\ gitCommands' = Append(gitCommands, entry)
            /\ entry = "commit" => (commitPc = "confirmCommit" /\ confirmed' = "yes")
            /\ entry = "push" =>
                 (gitCommands = <<"commit", "commit ok">> /\ confirmed = "yes")]_vars

\* The commit was confirmed and made, and pushed to a selected remote.
C27_Witness ==
  /\ commitPc = "exited"
  /\ exitCode = 0
  /\ Len(remotes) = 2
  /\ gitCommands = <<"commit", "commit ok", "push", "push ok">>

====
